---- MODULE Spec2Model ----
(***************************************************************************)
(* Request routing and image-generation fallback of the chat relay:        *)
(* handleChat, detectImageGenerationRequest, checkModelAvailability,       *)
(* generateImage, handleTextChat, handleImageChat and sendErrorResponse.   *)
(*                                                                         *)
(* A Go string is a sequence of one-character strings where the code looks *)
(* inside it (prompts, message texts, keywords), and a TLA+ string where    *)
(* the code only builds or compares it (error messages, model names).      *)
(***************************************************************************)
EXTENDS Integers, Sequences, FiniteSets, TLC

\* ------------------------------------------------------------------------
\* Bounds of the model
\* ------------------------------------------------------------------------

\* Number of candidate models taken from the head of the candidate list.
NumModels == 3

\* Longest conversation history a request carries.
MaxHistory == 2

\* ------------------------------------------------------------------------
\* strings.ToLower and strings.Contains
\* ------------------------------------------------------------------------

UpperLetters == <<"A", "B", "C", "D", "E", "F", "G", "H", "I", "J", "K", "L", "M",
                  "N", "O", "P", "Q", "R", "S", "T", "U", "V", "W", "X", "Y", "Z">>

LowerLetters == <<"a", "b", "c", "d", "e", "f", "g", "h", "i", "j", "k", "l", "m",
                  "n", "o", "p", "q", "r", "s", "t", "u", "v", "w", "x", "y", "z">>

LowerChar(c) ==
    IF \E i \in 1..Len(UpperLetters) : UpperLetters[i] = c
    THEN LowerLetters[CHOOSE i \in 1..Len(UpperLetters) : UpperLetters[i] = c]
    ELSE c

ToLower(s) == [i \in 1..Len(s) |-> LowerChar(s[i])]

\* TRUE iff substr occurs in s at offset i (0-based), compared rune by rune.
RECURSIVE MatchAt(_, _, _, _)
MatchAt(s, substr, i, j) ==
    IF j > Len(substr) THEN TRUE
    ELSE IF s[i + j] # substr[j] THEN FALSE
    ELSE MatchAt(s, substr, i, j + 1)

\* Left-to-right scan for the first occurrence of substr in s.
RECURSIVE ContainsFrom(_, _, _)
ContainsFrom(s, substr, i) ==
    IF i + Len(substr) > Len(s) THEN FALSE
    ELSE IF MatchAt(s, substr, i, 1) THEN TRUE
    ELSE ContainsFrom(s, substr, i + 1)

Contains(s, substr) == ContainsFrom(s, substr, 0)

\* ------------------------------------------------------------------------
\* The keyword list of detectImageGenerationRequest
\* ------------------------------------------------------------------------

KW01 == <<"b", "u", "a", "t", " ", "g", "a", "m", "b", "a", "r">>

KW02 == <<"b", "u", "a", "t", "k", "a", "n", " ", "g", "a", "m", "b", "a", "r">>

KW03 == <<"g", "e", "n", "e", "r", "a", "t", "e", " ", "i", "m", "a", "g", "e">>

KW04 == <<"c", "r", "e", "a", "t", "e", " ", "i", "m", "a", "g", "e">>

KW05 == <<"d", "r", "a", "w">>

KW06 == <<"g", "a", "m", "b", "a", "r">>

KW07 == <<"l", "u", "k", "i", "s">>

KW08 == <<"i", "l", "u", "s", "t", "r", "a", "s", "i">>

KW09 == <<"s", "k", "e", "t", "c", "h">>

KW10 == <<"p", "h", "o", "t", "o">>

KW11 == <<"p", "i", "c", "t", "u", "r", "e">>

KW12 == <<"i", "m", "a", "g", "e", " ", "o", "f">>

KW13 == <<"m", "a", "k", "e", " ", "a", " ", "p", "i", "c", "t", "u", "r", "e">>

KW14 == <<"m", "a", "k", "e", " ", "a", "n", " ", "i", "m", "a", "g", "e">>

imageKeywords == <<KW01, KW02, KW03, KW04, KW05, KW06, KW07, KW08, KW09, KW10,
                   KW11, KW12, KW13, KW14>>

\* ------------------------------------------------------------------------
\* Prompts and message texts the requests are drawn from
\* ------------------------------------------------------------------------

PromptEmpty == <<>>

PromptPicture == <<"W", "h", "a", "t", " ", "i", "s", " ", "i", "n", " ", "t", "h", "i", "s",
    " ", "p", "i", "c", "t", "u", "r", "e", "?">>

PromptKucing == <<"b", "u", "a", "t", "k", "a", "n", " ", "g", "a", "m", "b", "a", "r", " ",
    "k", "u", "c", "i", "n", "g">>

PromptHalo == <<"H", "a", "l", "o", ",", " ", "a", "p", "a", " ", "k", "a", "b", "a", "r", "?">>

PromptDrawUpper == <<"P", "l", "e", "a", "s", "e", " ", "D", "R", "A", "W", " ", "a", " ", "c",
    "a", "t">>

PromptNearMiss == <<"g", "a", "m", "b", "a", " ", "l", "u", "k", "k", "s">>

TextHalo == <<"h", "a", "l", "o">>

TextLukis == <<"L", "u", "k", "i", "s", " ", "b", "u", "n", "g", "a">>

TextPhoto == <<"H", "e", "r", "e", " ", "i", "s", " ", "a", " ", "p", "h", "o", "t", "o">>

\* ------------------------------------------------------------------------
\* Message, MessagePart, ChatResponse
\* ------------------------------------------------------------------------

TextPart(t) == [Text |-> t, MimeType |-> "", Data |-> ""]

ImagePart == [Text |-> <<>>, MimeType |-> "image/png", Data |-> "iVBORw0KGgo="]

Message(role, parts) == [Role |-> role, Parts |-> parts]

\* The messages histories are built from: a user turn without keyword, a user
\* turn whose image part precedes a keyword text, a model turn whose text holds
\* a keyword, a user turn with an image part only, and a user turn with two
\* texts after its image part.
MessagePool ==
    { Message("user", <<TextPart(TextHalo)>>),
      Message("user", <<ImagePart, TextPart(TextLukis)>>),
      Message("model", <<TextPart(TextPhoto)>>),
      Message("user", <<ImagePart>>),
      Message("user", <<ImagePart, TextPart(TextHalo), TextPart(TextLukis)>>) }

\* Every history of at most MaxHistory messages: the classifier's inputs.
Histories == UNION { [1..n -> MessagePool] : n \in 0..MaxHistory }

\* The histories of the requests handled end to end.
HandledHistories ==
    { <<>>,
      <<Message("user", <<TextPart(TextHalo)>>)>>,
      <<Message("user", <<ImagePart, TextPart(TextLukis)>>)>>,
      <<Message("model", <<TextPart(TextPhoto)>>)>>,
      <<Message("user", <<ImagePart>>)>>,
      <<Message("user", <<ImagePart, TextPart(TextLukis)>>),
        Message("user", <<TextPart(TextHalo)>>)>> }

\* The prompts of the requests handled end to end.
HandledPrompts == {PromptEmpty, PromptPicture, PromptKucing, PromptHalo}

Prompts == {PromptEmpty, PromptPicture, PromptKucing, PromptHalo, PromptDrawUpper,
            PromptNearMiss}

\* The response body of the image endpoint, by what the code reads of it: its
\* length, how json.Unmarshal into a map takes it ("invalid": not a JSON
\* object, "error": an object with an error field, "noerror": an object
\* without one) and its rendering in a message.
Body(len, json, text) == [len |-> len, json |-> json, text |-> text]

EmptyBody == Body(0, "invalid", "")

\* base64.StdEncoding.EncodeToString: four output characters for every three
\* input bytes, the last group padded.
EncodeToString(body) == [len |-> 4 * ((body.len + 2) \div 3), of |-> body]

\* The empty string as a value of ChatResponse.ImageBase64.
NoImage == EncodeToString(EmptyBody)

ChatResponse(response, imageBase64, error) ==
    [Response |-> response, ImageBase64 |-> imageBase64, Error |-> error]

StatusOK == 200

StatusBadRequest == 400

StatusMethodNotAllowed == 405

StatusInternalServerError == 500

\* sendErrorResponse with the message also set as the response text.
SendErrorAsResponse(errorMsg, statusCode) ==
    [code |-> statusCode, body |-> ChatResponse(errorMsg, NoImage, errorMsg)]

\* sendErrorResponse: the status code and a ChatResponse with only Error set.
sendErrorResponse(errorMsg, statusCode) ==
    [code |-> statusCode, body |-> ChatResponse("", NoImage, errorMsg)]

\* handleChat's successful response.
sendChatResponse(response, imageBase64) ==
    [code |-> StatusOK, body |-> ChatResponse(response, imageBase64, "")]

NoResult == [code |-> 0, body |-> ChatResponse("", NoImage, "")]

AckText == "Saya telah membuat gambar sesuai permintaan Anda!"

TextFallback == "Maaf, saya tidak dapat menghasilkan respons saat ini."

ImageFallback == "Maaf, saya tidak dapat menganalisis gambar ini."

DefaultImagePrompt == <<"A", "n", "a", "l", "i", "s", "i", "s", " ", "g", "a", "m", "b", "a",
    "r", " ", "i", "n", "i", " ", "d", "a", "n", " ", "j", "e", "l", "a", "s", "k", "a", "n",
    " ", "a", "p", "a", " ", "y", "a", "n", "g", " ", "A", "n", "d", "a", " ", "l", "i", "h",
    "a", "t", ".">>

\* ------------------------------------------------------------------------
\* detectImageGenerationRequest
\* ------------------------------------------------------------------------

\* for _, keyword := range imageKeywords { if strings.Contains(text, keyword) ... }
RECURSIVE AnyKeywordFrom(_, _)
AnyKeywordFrom(text, k) ==
    IF k > Len(imageKeywords) THEN FALSE
    ELSE IF Contains(text, imageKeywords[k]) THEN TRUE
    ELSE AnyKeywordFrom(text, k + 1)

\* for _, part := range lastMessage.Parts { text := strings.ToLower(part.Text) ... }
RECURSIVE AnyPartFrom(_, _)
AnyPartFrom(parts, p) ==
    IF p > Len(parts) THEN FALSE
    ELSE IF AnyKeywordFrom(ToLower(parts[p].Text), 1) THEN TRUE
    ELSE AnyPartFrom(parts, p + 1)

\* detectImageGenerationRequest without the look at the last message.
DetectInPromptOnly(prompt, messages) == AnyKeywordFrom(ToLower(prompt), 1)

detectImageGenerationRequest(prompt, messages) ==
    IF AnyKeywordFrom(ToLower(prompt), 1) THEN TRUE
    ELSE IF Len(messages) > 0 THEN AnyPartFrom(messages[Len(messages)].Parts, 1)
    ELSE FALSE

\* ------------------------------------------------------------------------
\* Requests
\* ------------------------------------------------------------------------

\* A request as handleChat reads it: the method, whether the multipart form
\* parses, the messages field (absent, malformed JSON, or JSON decoding to
\* messages), the prompt field and the image file (none, unreadable, read).
Request(method, form, field, messages, prompt, image) ==
    [method |-> method, form |-> form, messagesField |-> field, messages |-> messages,
     prompt |-> prompt, image |-> image]

Requests ==
    { Request(m, "ok", "absent", <<>>, PromptEmpty, "none") : m \in {"OPTIONS", "GET"} }
    \cup { Request("POST", "malformed", "absent", <<>>, PromptEmpty, "none") }
    \cup { Request("POST", "ok", f, <<>>, p, "none") :
             f \in {"absent", "malformed"}, p \in {PromptEmpty, PromptKucing} }
    \cup { Request("POST", "ok", "wellformed", h, p, i) :
             h \in HandledHistories, p \in HandledPrompts,
             i \in {"none", "unreadable", "read"} }

NoRequest == Request("", "", "", <<>>, PromptEmpty, "")

\* The parsing with the messages field optional.
ParsedLenient(r) ==
    /\ r.method = "POST"
    /\ r.form = "ok"
    /\ r.image # "unreadable"

\* The request passes every parsing step of handleChat.
Parsed(r) ==
    /\ r.method = "POST"
    /\ r.form = "ok"
    /\ r.messagesField = "wellformed"
    /\ r.image # "unreadable"

\* hasImage: r.FormFile("image") returned no error.
HasImage(r) == r.image # "none"

\* ------------------------------------------------------------------------
\* The upstream services
\* ------------------------------------------------------------------------

\* The candidate list of generateImage, in its order.
AllModels ==
    << "black-forest-labs/FLUX.1-dev",
       "black-forest-labs/FLUX.1-schnell",
       "stabilityai/stable-diffusion-xl-base-1.0",
       "stabilityai/sdxl-turbo",
       "Lykon/DreamShaper",
       "prompthero/openjourney",
       "nitrosocke/Arcane-Diffusion",
       "runwayml/stable-diffusion-v1-5",
       "CompVis/stable-diffusion-v1-4",
       "stabilityai/stable-diffusion-2-1" >>

models == SubSeq(AllModels, 1, NumModels)

\* What client.Do and io.ReadAll give back: a transport failure, a response
\* whose body cannot be read, or a status with its body.
HttpResponse(kind, status, body, err) ==
    [kind |-> kind, status |-> status, body |-> body, err |-> err]

NoResponse == HttpResponse("none", 0, EmptyBody, "")

\* Answers of the availability check (GET).
ProbeResponses ==
    { HttpResponse("senderr", 0, EmptyBody, "timeout"),
      HttpResponse("http", 200, EmptyBody, ""),
      HttpResponse("http", 503, EmptyBody, ""),
      HttpResponse("http", 404, EmptyBody, "") }

\* client := &http.Client{Timeout: 10 * time.Second}, in seconds.
ProbeTimeout == 10

\* client := &http.Client{Timeout: 60 * time.Second}, in seconds.
GenerateTimeout == 60

\* time.Sleep(20 * time.Second), in seconds.
CooldownSleep == 20

\* The shortest body generateImage takes for an image.
MinImageLen == 100

ImageBodies ==
    { Body(MinImageLen, "invalid", "<jpeg>"),
      Body(MinImageLen + 20, "noerror", "{\"data\":...}") }

NotImageBodies ==
    { Body(MinImageLen - 1, "invalid", "<cut>"),
      Body(28, "error", "Model is loading"),
      Body(MinImageLen + 20, "error", "CUDA out of memory") }

\* Answers of the generation request (POST).
GenResponses ==
    { HttpResponse("senderr", 0, EmptyBody, "timeout"),
      HttpResponse("readerr", 200, EmptyBody, "unexpected EOF") }
    \cup { HttpResponse("http", 200, b, "") : b \in ImageBodies \cup NotImageBodies }
    \cup { HttpResponse("http", s, Body(28, "error", "Model is loading"), "") :
             s \in {503, 404, 401, 429, 500} }

\* Outcomes of genai.NewClient.
ClientResults == {"", "dial failed"}

\* A part of a candidate of the conversational model's response.
GenaiText(t) == [isText |-> TRUE, text |-> t]

GenaiBlob == [isText |-> FALSE, text |-> ""]

Candidate(parts) == [Parts |-> parts]

GenerateContentResponse(err, candidates) == [err |-> err, Candidates |-> candidates]

\* No call of model.GenerateContent has returned yet.
NoChatResponse == GenerateContentResponse("", <<>>)

\* Answers of model.GenerateContent.
ChatResponses ==
    { GenerateContentResponse("quota exceeded", <<>>),
      GenerateContentResponse("", <<>>),
      GenerateContentResponse("", <<Candidate(<<>>)>>),
      GenerateContentResponse("", <<Candidate(<<GenaiBlob>>)>>),
      GenerateContentResponse("", <<Candidate(<<GenaiText("Ini seekor kucing.")>>)>>),
      GenerateContentResponse("", <<Candidate(<<GenaiText("")>>)>>) }

\* ------------------------------------------------------------------------
\* State
\* ------------------------------------------------------------------------

VARIABLES
    pc,                 \* where the handler stands
    request,            \* the request being handled
    isImageGeneration,  \* handleChat's routing decision
    called,             \* the functions handleChat has invoked
    client,             \* handleChat: the conversational client
    probeIdx,           \* generateImage: index of the next model to probe
    probed,             \* generateImage: what checkModelAvailability returned, in order
    workingModel,       \* generateImage: the preferred model
    modelsToTry,        \* generateImage: the try-order
    tryIdx,             \* generateImage: index in modelsToTry of the current model
    lastError,          \* generateImage: the last recorded error
    resp,               \* the response of the latest client.Do
    upstream,           \* every upstream call and sleep made, in order
    chatResp,           \* the response of the latest model.GenerateContent
    cancelled,          \* the client has gone: r.Context() is cancelled
    result              \* what was written to the client

vars == <<pc, request, isImageGeneration, called, client, probeIdx, probed, workingModel,
          modelsToTry, tryIdx, lastError, resp, upstream, chatResp, cancelled, result>>

genVars == <<probeIdx, probed, workingModel, modelsToTry, tryIdx, lastError, resp>>

\* error(nil) as fmt prints it with %v.
NilError == "<nil>"

Init ==
    /\ pc = "idle"
    /\ request = NoRequest
    /\ isImageGeneration = FALSE
    /\ called = {}
    /\ client = "nil"
    /\ probeIdx = 1
    /\ probed = <<>>
    /\ workingModel = ""
    /\ modelsToTry = <<>>
    /\ tryIdx = 0
    /\ lastError = NilError
    /\ resp = NoResponse
    /\ upstream = <<>>
    /\ chatResp = NoChatResponse
    /\ cancelled = FALSE
    /\ result = NoResult

\* ------------------------------------------------------------------------
\* handleChat: parsing and routing
\* ------------------------------------------------------------------------

\* The error response of the first parsing step that fails, NoResult if none
\* does.  An OPTIONS request returns before anything is written.
ParseFailure(r) ==
    IF r.method = "OPTIONS" THEN NoResult
    ELSE IF r.method # "POST"
        THEN sendErrorResponse("Method not allowed", StatusMethodNotAllowed)
    ELSE IF r.form # "ok"
        THEN sendErrorResponse("Failed to parse form data: " \o "no multipart boundary",
                               StatusBadRequest)
    ELSE IF r.messagesField = "absent"
        THEN sendErrorResponse("Messages field is required", StatusBadRequest)
    ELSE IF r.messagesField # "wellformed"
        THEN sendErrorResponse("Failed to parse messages JSON: " \o "invalid character",
                               StatusBadRequest)
    ELSE IF r.image = "unreadable"
        THEN sendErrorResponse("Failed to read image data: " \o "unexpected EOF",
                               StatusBadRequest)
    ELSE NoResult

\* The routing with the branches swapped.
RouteSwapped(isGeneration) == IF isGeneration THEN "client" ELSE "probe"

\* if isImageGeneration { generateImage } else { genai.NewClient ... }
RouteOf(isGeneration) == IF isGeneration THEN "probe" ELSE "client"

\* The chat function chosen without regard to the uploaded image.
AlwaysTextChat(hasImage) == "handleTextChat"

\* if hasImage { handleImageChat } else { handleTextChat }
ChatFunctionOf(hasImage) == IF hasImage THEN "handleImageChat" ELSE "handleTextChat"

HandleChat(r) ==
    /\ pc = "idle"
    /\ request' = r
    /\ IF Parsed(r)
       THEN LET isGen == detectImageGenerationRequest(r.prompt, r.messages) IN
            /\ isImageGeneration' = isGen
            /\ pc' = RouteOf(isGen)
            /\ called' = IF RouteOf(isGen) = "probe" THEN {"generateImage"} ELSE {}
            /\ result' = result
       ELSE /\ pc' = "done"
            /\ result' = ParseFailure(r)
            /\ UNCHANGED <<isImageGeneration, called>>
    /\ UNCHANGED <<client, genVars, upstream, chatResp, cancelled>>

\* ------------------------------------------------------------------------
\* checkModelAvailability and the probe phase of generateImage
\* ------------------------------------------------------------------------

checkModelAvailability(p) ==
    IF p.kind # "http" THEN FALSE ELSE p.status = 200

\* The fallback taken from the end of the list.
PreferLastModel(working) == IF working = "" THEN models[Len(models)] ELSE working

\* if workingModel == "" { workingModel = models[0] }
PreferredModel(working) == IF working = "" THEN models[1] ELSE working

\* The try-order with the preferred model entered a second time.
TryOrderPreferredTwice(working) ==
    <<working, working>> \o SelectSeq(models, LAMBDA m : m # working)

\* The try-order without the removal of the preferred model from its place.
TryOrderWithDuplicate(working) == <<working>> \o models

\* modelsToTry := []string{workingModel}; then every other model, in list order.
TryOrder(working) == <<working>> \o SelectSeq(models, LAMBDA m : m # working)

ProbeEvent(model) == [op |-> "probe", model |-> model]

Probe(p) ==
    /\ pc = "probe"
    /\ LET model == models[probeIdx]
           ready == checkModelAvailability(p)
           found == IF ready THEN model ELSE ""
       IN
       /\ upstream' = Append(upstream, ProbeEvent(model))
       /\ resp' = p
       /\ probed' = Append(probed, ready)
       /\ IF ready \/ probeIdx = Len(models)
          THEN /\ workingModel' = PreferredModel(found)
               /\ modelsToTry' = TryOrder(PreferredModel(found))
               /\ tryIdx' = 1
               /\ pc' = "post"
               /\ UNCHANGED probeIdx
          ELSE /\ probeIdx' = probeIdx + 1
               /\ UNCHANGED <<workingModel, modelsToTry, tryIdx, pc>>
    /\ UNCHANGED <<request, isImageGeneration, called, client, lastError, chatResp,
                   cancelled, result>>

\* ------------------------------------------------------------------------
\* The generation phase of generateImage
\* ------------------------------------------------------------------------

\* What the body of the loop decides for the current model.
Failed(err) == [kind |-> "continue", err |-> err, image |-> NoImage]

\* The success of an iteration with the encoded body left out.
SucceededWithoutImage(body) == [kind |-> "return", err |-> "", image |-> NoImage]

Succeeded(body) == [kind |-> "return", err |-> "", image |-> EncodeToString(body)]

Loading == [kind |-> "sleep", err |-> "", image |-> NoImage]

\* ClassifyBody with the length test off by one.
ClassifyBodyOffByOne(model, status, body) ==
    IF status # StatusOK
        THEN Failed("API request failed for model " \o model \o " with status "
                    \o ToString(status) \o ": " \o body.text)
    ELSE IF body.json = "error"
        THEN Failed("model " \o model \o " returned error: " \o body.text)
    ELSE IF body.len <= MinImageLen
        THEN Failed("response too short for model " \o model)
    ELSE Succeeded(body)

\* From "if resp.StatusCode != http.StatusOK" down to the return.
ClassifyBody(model, status, body) ==
    IF status # StatusOK
        THEN Failed("API request failed for model " \o model \o " with status "
                    \o ToString(status) \o ": " \o body.text)
    ELSE IF body.json = "error"
        THEN Failed("model " \o model \o " returned error: " \o body.text)
    ELSE IF body.len < MinImageLen
        THEN Failed("response too short for model " \o model)
    ELSE Succeeded(body)

\* AfterFirst with a 429 waited out and retried like a 503.
AfterFirstRetry429(model, r) ==
    IF r.kind = "senderr" THEN Failed("failed to send request: " \o r.err)
    ELSE IF r.kind = "readerr" THEN Failed("failed to read response body: " \o r.err)
    ELSE IF r.status = 503 \/ r.status = 429 THEN Loading
    ELSE IF r.status = 404 THEN Failed("model " \o model \o " not found")
    ELSE IF r.status = 401 THEN Failed("unauthorized - invalid API key")
    ELSE ClassifyBody(model, r.status, r.body)

\* The first client.Do(req) of an iteration and the status switch after it.
AfterFirst(model, r) ==
    IF r.kind = "senderr" THEN Failed("failed to send request: " \o r.err)
    ELSE IF r.kind = "readerr" THEN Failed("failed to read response body: " \o r.err)
    ELSE IF r.status = 503 THEN Loading
    ELSE IF r.status = 404 THEN Failed("model " \o model \o " not found")
    ELSE IF r.status = 401 THEN Failed("unauthorized - invalid API key")
    ELSE IF r.status = 429 THEN Failed("rate limit exceeded")
    ELSE ClassifyBody(model, r.status, r.body)

\* The retry handled like a first request, a 503 sleeping again.
RetryLikeFirst(model, r) ==
    IF r.kind = "senderr" THEN Failed("retry failed: " \o r.err)
    ELSE IF r.kind = "readerr" THEN Failed("failed to read retry response: " \o r.err)
    ELSE IF r.status = 503 THEN Loading
    ELSE ClassifyBody(model, r.status, r.body)

\* The second client.Do(req), after the sleep.
AfterRetry(model, r) ==
    IF r.kind = "senderr" THEN Failed("retry failed: " \o r.err)
    ELSE IF r.kind = "readerr" THEN Failed("failed to read retry response: " \o r.err)
    ELSE ClassifyBody(model, r.status, r.body)

\* return "", fmt.Errorf("all image generation models failed, last error: %v", lastError)
AllModelsFailed(last) == "all image generation models failed, last error: " \o last

\* handleChat answering with the acknowledgement when generateImage fails.
GenerateFailedSwallowed(err) == sendChatResponse(AckText, NoImage)

\* handleChat on generateImage's error.
GenerateFailed(err) ==
    sendErrorResponse("Failed to generate image: " \o err, StatusInternalServerError)

\* The response is HTTP 200 with an image for a body.
IsImage(r) ==
    /\ r.kind = "http"
    /\ r.status = 200
    /\ r.body.json # "error"
    /\ r.body.len >= 100

\* The characters of a string constant of generateImage, for strings.Contains.
Runes(name) ==
    CASE name = "black-forest-labs/FLUX.1-dev" ->
            <<"b", "l", "a", "c", "k", "-", "f", "o", "r", "e", "s", "t", "-", "l",
              "a", "b", "s", "/", "F", "L", "U", "X", ".", "1", "-", "d", "e", "v">>
      [] name = "black-forest-labs/FLUX.1-schnell" ->
            <<"b", "l", "a", "c", "k", "-", "f", "o", "r", "e", "s", "t", "-", "l",
              "a", "b", "s", "/", "F", "L", "U", "X", ".", "1", "-", "s", "c", "h",
              "n", "e", "l", "l">>
      [] name = "stabilityai/stable-diffusion-xl-base-1.0" ->
            <<"s", "t", "a", "b", "i", "l", "i", "t", "y", "a", "i", "/", "s", "t",
              "a", "b", "l", "e", "-", "d", "i", "f", "f", "u", "s", "i", "o", "n",
              "-", "x", "l", "-", "b", "a", "s", "e", "-", "1", ".", "0">>
      [] name = "stabilityai/sdxl-turbo" ->
            <<"s", "t", "a", "b", "i", "l", "i", "t", "y", "a", "i", "/", "s", "d",
              "x", "l", "-", "t", "u", "r", "b", "o">>
      [] name = "Lykon/DreamShaper" ->
            <<"L", "y", "k", "o", "n", "/", "D", "r", "e", "a", "m", "S", "h", "a",
              "p", "e", "r">>
      [] name = "prompthero/openjourney" ->
            <<"p", "r", "o", "m", "p", "t", "h", "e", "r", "o", "/", "o", "p", "e",
              "n", "j", "o", "u", "r", "n", "e", "y">>
      [] name = "nitrosocke/Arcane-Diffusion" ->
            <<"n", "i", "t", "r", "o", "s", "o", "c", "k", "e", "/", "A", "r", "c",
              "a", "n", "e", "-", "D", "i", "f", "f", "u", "s", "i", "o", "n">>
      [] name = "runwayml/stable-diffusion-v1-5" ->
            <<"r", "u", "n", "w", "a", "y", "m", "l", "/", "s", "t", "a", "b", "l",
              "e", "-", "d", "i", "f", "f", "u", "s", "i", "o", "n", "-", "v", "1",
              "-", "5">>
      [] name = "CompVis/stable-diffusion-v1-4" ->
            <<"C", "o", "m", "p", "V", "i", "s", "/", "s", "t", "a", "b", "l", "e",
              "-", "d", "i", "f", "f", "u", "s", "i", "o", "n", "-", "v", "1", "-",
              "4">>
      [] name = "stabilityai/stable-diffusion-2-1" ->
            <<"s", "t", "a", "b", "i", "l", "i", "t", "y", "a", "i", "/", "s", "t",
              "a", "b", "l", "e", "-", "d", "i", "f", "f", "u", "s", "i", "o", "n",
              "-", "2", "-", "1">>

StableDiffusion ==
    <<"s", "t", "a", "b", "l", "e", "-", "d", "i", "f", "f", "u", "s", "i", "o", "n">>

Sdxl == <<"s", "d", "x", "l">>

\* The test before payload["parameters"] without its second disjunct.
ParameterModelsStableDiffusionOnly ==
    { AllModels[i] : i \in { j \in 1..Len(AllModels) :
        Contains(Runes(AllModels[j]), StableDiffusion) } }

\* The candidates for which the test before payload["parameters"] holds:
\* strings.Contains(model, "stable-diffusion") || strings.Contains(model, "sdxl")
ParameterModels ==
    { AllModels[i] : i \in { j \in 1..Len(AllModels) :
        Contains(Runes(AllModels[j]), StableDiffusion) \/ Contains(Runes(AllModels[j]), Sdxl) } }

\* "num_inference_steps": 25
NumInferenceSteps == 25

\* "guidance_scale": 7.5, as json.Marshal writes it.
GuidanceScale == "7.5"

\* The payload with a stand-in for an empty prompt.
PayloadNeverEmpty(model, prompt) ==
    IF model \in ParameterModels
    THEN [inputs |-> IF prompt = <<>> THEN DefaultImagePrompt ELSE prompt,
          parameters |-> [num_inference_steps |-> NumInferenceSteps,
                          guidance_scale |-> GuidanceScale]]
    ELSE [inputs |-> IF prompt = <<>> THEN DefaultImagePrompt ELSE prompt]

\* payload := map[string]interface{}{"inputs": prompt}, with "parameters"
\* added for the stable diffusion models.
Payload(model, prompt) ==
    IF model \in ParameterModels
    THEN [inputs |-> prompt,
          parameters |-> [num_inference_steps |-> NumInferenceSteps,
                          guidance_scale |-> GuidanceScale]]
    ELSE [inputs |-> prompt]

\* A generation request, and whether an image came back.
PostEvent(model, prompt, retry, r) ==
    [op |-> "post", model |-> model, payload |-> Payload(model, prompt), retry |-> retry,
     image |-> IsImage(r)]

SleepEvent(model) == [op |-> "sleep", model |-> model]

\* Decide going on to the next model after an image has come back.
DecideOnAfterSuccess(outcome, r) ==
    IF outcome.kind = "sleep"
    THEN /\ pc' = "sleep"
         /\ resp' = r
         /\ UNCHANGED <<tryIdx, lastError, result>>
    ELSE /\ lastError' = IF outcome.kind = "return" THEN lastError ELSE outcome.err
         /\ resp' = r
         /\ tryIdx' = tryIdx + 1
         /\ IF tryIdx < Len(modelsToTry)
            THEN pc' = "post" /\ result' = result
            ELSE pc' = "done"
                 /\ result' = IF outcome.kind = "return"
                              THEN sendChatResponse(AckText, outcome.image)
                              ELSE GenerateFailed(AllModelsFailed(outcome.err))

\* Decide handing the request to the chat functions when every model has
\* failed.
DecideChatOnFailure(outcome, r) ==
    IF outcome.kind = "sleep"
    THEN /\ pc' = "sleep"
         /\ resp' = r
         /\ UNCHANGED <<tryIdx, lastError, result>>
    ELSE IF outcome.kind = "return"
    THEN /\ pc' = "done"
         /\ resp' = r
         /\ result' = sendChatResponse(AckText, outcome.image)
         /\ UNCHANGED <<tryIdx, lastError>>
    ELSE /\ lastError' = outcome.err
         /\ resp' = r
         /\ tryIdx' = tryIdx + 1
         /\ result' = result
         /\ pc' = IF tryIdx < Len(modelsToTry) THEN "post" ELSE "client"

\* Decide with lastError set only while it is still nil.
DecideKeepFirstError(outcome, r) ==
    IF outcome.kind = "sleep"
    THEN /\ pc' = "sleep"
         /\ resp' = r
         /\ UNCHANGED <<tryIdx, lastError, result>>
    ELSE IF outcome.kind = "return"
    THEN /\ pc' = "done"
         /\ resp' = r
         /\ result' = sendChatResponse(AckText, outcome.image)
         /\ UNCHANGED <<tryIdx, lastError>>
    ELSE /\ lastError' = IF lastError = NilError THEN outcome.err ELSE lastError
         /\ resp' = r
         /\ tryIdx' = tryIdx + 1
         /\ IF tryIdx < Len(modelsToTry)
            THEN pc' = "post" /\ result' = result
            ELSE pc' = "done" /\ result' = GenerateFailed(AllModelsFailed(lastError'))

\* Carry out what the loop body decided.
Decide(outcome, r) ==
    IF outcome.kind = "sleep"
    THEN /\ pc' = "sleep"
         /\ resp' = r
         /\ UNCHANGED <<tryIdx, lastError, result>>
    ELSE IF outcome.kind = "return"
    THEN /\ pc' = "done"
         /\ resp' = r
         /\ result' = sendChatResponse(AckText, outcome.image)
         /\ UNCHANGED <<tryIdx, lastError>>
    ELSE /\ lastError' = outcome.err
         /\ resp' = r
         /\ tryIdx' = tryIdx + 1
         /\ IF tryIdx < Len(modelsToTry)
            THEN pc' = "post" /\ result' = result
            ELSE pc' = "done" /\ result' = GenerateFailed(AllModelsFailed(outcome.err))

Post(r) ==
    /\ pc = "post"
    /\ LET model == modelsToTry[tryIdx] IN
       /\ upstream' = Append(upstream, PostEvent(model, request.prompt, FALSE, r))
       /\ Decide(AfterFirst(model, r), r)
    /\ UNCHANGED <<request, isImageGeneration, called, client, probeIdx, probed,
                   workingModel, modelsToTry, chatResp, cancelled>>

\* time.Sleep(20 * time.Second)
Sleep ==
    /\ pc = "sleep"
    /\ pc' = "retry"
    /\ upstream' = Append(upstream, SleepEvent(modelsToTry[tryIdx]))
    /\ UNCHANGED <<request, isImageGeneration, called, client, genVars, chatResp,
                   cancelled, result>>

Retry(r) ==
    /\ pc = "retry"
    /\ LET model == modelsToTry[tryIdx] IN
       /\ upstream' = Append(upstream, PostEvent(model, request.prompt, TRUE, r))
       /\ Decide(AfterRetry(model, r), r)
    /\ UNCHANGED <<request, isImageGeneration, called, client, probeIdx, probed,
                   workingModel, modelsToTry, chatResp, cancelled>>

\* ------------------------------------------------------------------------
\* handleTextChat and handleImageChat
\* ------------------------------------------------------------------------

\* for _, part := range lastMsg.Parts { if part.Text != "" { promptText = part.Text; break } }
RECURSIVE FirstTextFrom(_, _)
FirstTextFrom(parts, p) ==
    IF p > Len(parts) THEN <<>>
    ELSE IF parts[p].Text # <<>> THEN parts[p].Text
    ELSE FirstTextFrom(parts, p + 1)

\* promptText falling back on the first message when the last one holds no
\* text.
PromptTextSearchingBack(messages, prompt) ==
    IF prompt # <<>> THEN prompt
    ELSE IF Len(messages) > 0
        THEN IF FirstTextFrom(messages[Len(messages)].Parts, 1) # <<>>
             THEN FirstTextFrom(messages[Len(messages)].Parts, 1)
             ELSE FirstTextFrom(messages[1].Parts, 1)
    ELSE <<>>

\* promptText with the loop over the parts running to the end, the last text
\* winning.
PromptTextLastPart(messages, prompt) ==
    IF prompt # <<>> THEN prompt
    ELSE IF Len(messages) > 0
        THEN LET parts == messages[Len(messages)].Parts
                 texts == { p \in 1..Len(parts) : parts[p].Text # <<>> }
             IN IF texts = {} THEN <<>>
                ELSE parts[CHOOSE p \in texts : \A q \in texts : q <= p].Text
    ELSE <<>>

\* promptText of handleTextChat.
PromptText(messages, prompt) ==
    IF prompt # <<>> THEN prompt
    ELSE IF Len(messages) > 0 THEN FirstTextFrom(messages[Len(messages)].Parts, 1)
    ELSE <<>>

\* The extraction without the fallback: nothing is returned when the first
\* candidate holds no text.
ExtractTextNoFallback(g, fallback) ==
    IF Len(g.Candidates) > 0 /\ Len(g.Candidates[1].Parts) > 0
       /\ g.Candidates[1].Parts[1].isText
    THEN g.Candidates[1].Parts[1].text
    ELSE ""

\* The text both chat functions take from the response, or their fallback.
ExtractText(g, fallback) ==
    IF Len(g.Candidates) > 0 /\ Len(g.Candidates[1].Parts) > 0
       /\ g.Candidates[1].Parts[1].isText
    THEN g.Candidates[1].Parts[1].text
    ELSE fallback

ChatEvent(parts) == [op |-> "generateContent", model |-> "gemini-1.5-flash", parts |-> parts]

\* What a chat function returns, and the upstream calls it made.
ChatReturn(text, err, calls) == [text |-> text, err |-> err, calls |-> calls]

\* handleTextChat without the check for an empty promptText.
TextChatUnchecked(messages, prompt, g) ==
    LET promptText == PromptText(messages, prompt) IN
    IF g.err # ""
        THEN ChatReturn("", "failed to generate content: " \o g.err,
                        <<ChatEvent(<<promptText>>)>>)
    ELSE ChatReturn(ExtractText(g, TextFallback), "", <<ChatEvent(<<promptText>>)>>)

\* handleTextChat calling model.GenerateContent a second time when the first
\* call fails.
TextChatRetrying(messages, prompt, g) ==
    LET promptText == PromptText(messages, prompt) IN
    IF promptText = <<>>
        THEN ChatReturn("", "no text content to send to Gemini", <<>>)
    ELSE IF g.err # ""
        THEN ChatReturn("", "failed to generate content: " \o g.err,
                        <<ChatEvent(<<promptText>>), ChatEvent(<<promptText>>)>>)
    ELSE ChatReturn(ExtractText(g, TextFallback), "", <<ChatEvent(<<promptText>>)>>)

handleTextChat(messages, prompt, g) ==
    LET promptText == PromptText(messages, prompt) IN
    IF promptText = <<>>
        THEN ChatReturn("", "no text content to send to Gemini", <<>>)
    ELSE IF g.err # ""
        THEN ChatReturn("", "failed to generate content: " \o g.err,
                        <<ChatEvent(<<promptText>>)>>)
    ELSE ChatReturn(ExtractText(g, TextFallback), "", <<ChatEvent(<<promptText>>)>>)

\* handleImageChat taking its text the way handleTextChat does, from the last
\* message when the prompt is empty.
ImageChatFromHistory(messages, image, prompt, g) ==
    LET text == PromptText(messages, prompt)
        parts == <<text, image>>
    IN
    IF text = <<>>
        THEN ChatReturn("", "no text content to send to Gemini", <<>>)
    ELSE IF g.err # ""
        THEN ChatReturn("", "failed to generate content with image: " \o g.err,
                        <<ChatEvent(parts)>>)
    ELSE ChatReturn(ExtractText(g, ImageFallback), "", <<ChatEvent(parts)>>)

handleImageChat(messages, image, prompt, g) ==
    LET text == IF prompt # <<>> THEN prompt ELSE DefaultImagePrompt
        parts == <<text, image>>
    IN
    IF g.err # ""
        THEN ChatReturn("", "failed to generate content with image: " \o g.err,
                        <<ChatEvent(parts)>>)
    ELSE ChatReturn(ExtractText(g, ImageFallback), "", <<ChatEvent(parts)>>)

\* genai.NewClient(ctx, option.WithAPIKey(geminiAPIKey))
NewClient(c) ==
    /\ pc = "client"
    /\ called' = called \cup {"genai.NewClient"}
    /\ IF c # ""
       THEN /\ pc' = "done"
            /\ client' = "nil"
            /\ result' = sendErrorResponse("Failed to initialize Gemini client: " \o c,
                                           StatusInternalServerError)
       ELSE /\ pc' = "chat"
            /\ client' = "open"
            /\ result' = result
    /\ UNCHANGED <<request, isImageGeneration, genVars, upstream, chatResp, cancelled>>

\* The image file of the request as genai.ImageData(mimeType, imageData).
ImageData(r) == [mimeType |-> "image/png", data |-> r.image]

\* handleChat from the choice of the chat function to the response.
Chat(g) ==
    /\ pc = "chat"
    /\ LET f == ChatFunctionOf(HasImage(request))
           ret == IF f = "handleImageChat"
                  THEN handleImageChat(request.messages, ImageData(request),
                                       request.prompt, g)
                  ELSE handleTextChat(request.messages, request.prompt, g)
       IN
       /\ called' = called \cup {f}
       /\ upstream' = upstream \o ret.calls
       /\ chatResp' = IF ret.calls # <<>> THEN g ELSE chatResp
       /\ result' = IF ret.err # ""
                    THEN sendErrorResponse("Failed to get response from Gemini: " \o ret.err,
                                           StatusInternalServerError)
                    ELSE sendChatResponse(ret.text, NoImage)
    /\ pc' = "done"
    /\ client' = "closed"
    /\ UNCHANGED <<request, isImageGeneration, genVars, cancelled>>

\* ------------------------------------------------------------------------
\* Specification
\* ------------------------------------------------------------------------

Next ==
    \/ \E r \in Requests : HandleChat(r)
    \/ \E p \in ProbeResponses : Probe(p)
    \/ \E r \in GenResponses : Post(r)
    \/ Sleep
    \/ \E r \in GenResponses : Retry(r)
    \/ \E c \in ClientResults : NewClient(c)
    \/ \E g \in ChatResponses : Chat(g)

Spec == Init /\ [][Next]_vars

\* ------------------------------------------------------------------------
\* The handler with a client that may disconnect
\* ------------------------------------------------------------------------

\* The client disconnects while its request is being handled: the context of
\* the request, r.Context(), is cancelled.  handleChat hands
\* context.Background() to everything it calls, so no step of the handler
\* reads the signal.
Cancel ==
    /\ pc \notin {"idle", "done"}
    /\ ~cancelled
    /\ cancelled' = TRUE
    /\ UNCHANGED <<pc, request, isImageGeneration, called, client, genVars, upstream,
                   chatResp, result>>

NextCancel == Next \/ Cancel

CancelSpec == Init /\ [][NextCancel]_vars

\* ------------------------------------------------------------------------
\* The classifier on its own: detectImageGenerationRequest applied to every
\* prompt and every history of at most MaxHistory messages
\* ------------------------------------------------------------------------

ClassifyRequests ==
    { Request("POST", "ok", "wellformed", h, p, "none") : h \in Histories, p \in Prompts }

InitClassify ==
    /\ pc = "classify"
    /\ request \in ClassifyRequests
    /\ isImageGeneration = FALSE
    /\ called = {}
    /\ client = "nil"
    /\ probeIdx = 1
    /\ probed = <<>>
    /\ workingModel = ""
    /\ modelsToTry = <<>>
    /\ tryIdx = 0
    /\ lastError = NilError
    /\ resp = NoResponse
    /\ upstream = <<>>
    /\ chatResp = NoChatResponse
    /\ cancelled = FALSE
    /\ result = NoResult

Classify ==
    /\ pc = "classify"
    /\ isImageGeneration' = detectImageGenerationRequest(request.prompt, request.messages)
    /\ pc' = "classified"
    /\ UNCHANGED <<request, called, client, genVars, upstream, chatResp, cancelled,
                   result>>

ClassifySpec == InitClassify /\ [][Classify]_vars

\* ------------------------------------------------------------------------
\* The chat functions on their own: handleChat from the choice of the chat
\* function on, for every prompt, every history of at most MaxHistory
\* messages, with and without an uploaded image
\* ------------------------------------------------------------------------

\* The handler with every step returning: each upstream call answers or
\* times out (http.Client.Timeout of 10 and 60 seconds), the sleep ends, and
\* the server runs the handler of a request it has accepted.
FairSpec == Spec /\ WF_vars(Next)

\* The body of generateImage's loop for each candidate of the whole list on
\* its own: a try-order of one model, for the prompts that reach
\* generateImage.
PayloadRequests ==
    { Request("POST", "ok", "wellformed", h, p, "none") :
        h \in HandledHistories, p \in {PromptKucing, PromptPicture} }

InitPayload ==
    /\ pc = "post"
    /\ request \in PayloadRequests
    /\ isImageGeneration = TRUE
    /\ called = {"generateImage"}
    /\ client = "nil"
    /\ probeIdx = 1
    /\ probed = <<>>
    /\ \E i \in 1..Len(AllModels) :
           /\ workingModel = AllModels[i]
           /\ modelsToTry = <<AllModels[i]>>
    /\ tryIdx = 1
    /\ lastError = NilError
    /\ resp = NoResponse
    /\ upstream = <<>>
    /\ chatResp = NoChatResponse
    /\ cancelled = FALSE
    /\ result = NoResult

NextPayload ==
    \/ \E r \in GenResponses : Post(r)
    \/ Sleep
    \/ \E r \in GenResponses : Retry(r)

PayloadSpec == InitPayload /\ [][NextPayload]_vars

ChatRequests ==
    { Request("POST", "ok", "wellformed", h, p, i) :
        h \in Histories, p \in Prompts, i \in {"none", "read"} }

InitChat ==
    /\ pc = "chat"
    /\ request \in ChatRequests
    /\ isImageGeneration = FALSE
    /\ called = {"genai.NewClient"}
    /\ client = "open"
    /\ probeIdx = 1
    /\ probed = <<>>
    /\ workingModel = ""
    /\ modelsToTry = <<>>
    /\ tryIdx = 0
    /\ lastError = NilError
    /\ resp = NoResponse
    /\ upstream = <<>>
    /\ chatResp = NoChatResponse
    /\ cancelled = FALSE
    /\ result = NoResult

NextChat == \E g \in ChatResponses : Chat(g)

ChatSpec == InitChat /\ [][NextChat]_vars

\* ------------------------------------------------------------------------
\* Vocabulary of the properties
\* ------------------------------------------------------------------------

Last(s) == s[Len(s)]

ChatFunctions == {"handleImageChat", "handleTextChat"}

\* The upstream events of one kind.
EventsOf(op) == { i \in 1..Len(upstream) : upstream[i].op = op }

\* substr occurs somewhere in s.
OccursIn(substr, s) ==
    \E i \in 1..Len(s) :
        /\ i + Len(substr) - 1 <= Len(s)
        /\ SubSeq(s, i, i + Len(substr) - 1) = substr

\* Some keyword occurs in the lower-cased text.
KeywordIn(text) == \E k \in 1..Len(imageKeywords) : OccursIn(imageKeywords[k], ToLower(text))

\* Some keyword occurs in the prompt or in a part of the last message.
KeywordInRequest(r) ==
    \/ KeywordIn(r.prompt)
    \/ /\ r.messages # <<>>
       /\ \E p \in 1..Len(Last(r.messages).Parts) : KeywordIn(Last(r.messages).Parts[p].Text)

\* Some keyword occurs in the prompt or anywhere in the history.
KeywordAnywhere(r) ==
    \/ KeywordIn(r.prompt)
    \/ \E m \in 1..Len(r.messages) :
           \E p \in 1..Len(r.messages[m].Parts) : KeywordIn(r.messages[m].Parts[p].Text)

\* The conversational client could not be created.
ClientFailed == "genai.NewClient" \in called /\ client = "nil"

\* ------------------------------------------------------------------------
\* Properties
\* ------------------------------------------------------------------------

\* C1 (as stated): for every parsed request, if the classifier returns true
\* generateImage is invoked and no chat function is, even with an uploaded
\* image; otherwise handleImageChat is invoked iff an image was uploaded and
\* handleTextChat iff none was.
C1_RoutingAsStated ==
    (pc = "done" /\ Parsed(request)) =>
        IF isImageGeneration
        THEN /\ "generateImage" \in called
             /\ called \cap ChatFunctions = {}
             /\ EventsOf("generateContent") = {}
        ELSE /\ "generateImage" \notin called
             /\ "handleImageChat" \in called <=> HasImage(request)
             /\ "handleTextChat" \in called <=> ~HasImage(request)

\* C1 (amended): as stated, except that when the conversational client cannot
\* be created no chat function is invoked at all.
C1_Routing ==
    (pc = "done" /\ Parsed(request)) =>
        IF isImageGeneration
        THEN /\ "generateImage" \in called
             /\ called \cap ChatFunctions = {}
             /\ EventsOf("generateContent") = {}
        ELSE /\ "generateImage" \notin called
             /\ EventsOf("probe") \cup EventsOf("post") = {}
             /\ IF ClientFailed
                THEN called \cap ChatFunctions = {}
                ELSE /\ "handleImageChat" \in called <=> HasImage(request)
                     /\ "handleTextChat" \in called <=> ~HasImage(request)

\* C1 witness: a request with an uploaded image and a keyword went to
\* generateImage and finished.
C1_Witness ==
    /\ pc = "done"
    /\ Parsed(request)
    /\ HasImage(request)
    /\ isImageGeneration
    /\ "generateImage" \in called

\* C2: detectImageGenerationRequest returns true iff some keyword occurs in
\* the lower-cased prompt or in the lower-cased text of a part of the last
\* message; with no keyword in the prompt or the history it returns false.
C2_ClassifierIffKeyword ==
    pc = "classified" =>
        /\ isImageGeneration <=> KeywordInRequest(request)
        /\ ~KeywordAnywhere(request) => ~isImageGeneration

\* C2 witness: classified true on the last message alone, whose keyword is
\* written with a capital.
C2_Witness ==
    /\ pc = "classified"
    /\ isImageGeneration
    /\ ~KeywordIn(request.prompt)
    /\ request.messages # <<>>

\* C3 (as stated): prompt "What is in this picture?" with an uploaded image
\* is classified false, goes to handleImageChat and not to generateImage, and
\* a successful result carries no image.
C3_PictureQuestionAnalysed ==
    (pc # "idle" /\ Parsed(request) /\ request.prompt = PromptPicture
        /\ request.image = "read") =>
        /\ ~isImageGeneration
        /\ "generateImage" \notin called
        /\ (pc = "done" /\ ~ClientFailed) => "handleImageChat" \in called
        /\ (pc = "done" /\ result.body.Error = "") => result.body.ImageBase64 = NoImage

\* Some generation request of this run was answered with an image.
SomeAttemptSucceeded == \E i \in EventsOf("post") : upstream[i].image

\* C4: a parsed request with prompt "buatkan gambar kucing" is classified
\* true and goes to generateImage; when one candidate's attempt succeeds the
\* result has a non-empty imageBase64, the acknowledgement as response and
\* no error.
C4_KucingGenerated ==
    (pc # "idle" /\ Parsed(request) /\ request.prompt = PromptKucing) =>
        /\ isImageGeneration
        /\ "generateImage" \in called
        /\ (pc = "done" /\ SomeAttemptSucceeded) =>
               /\ result.code = StatusOK
               /\ result.body.ImageBase64.len > 0
               /\ result.body.Response = AckText
               /\ result.body.Error = ""

\* C4 witness: the second candidate tried delivered the image.
C4_Witness ==
    /\ pc = "done"
    /\ request.prompt = PromptKucing
    /\ SomeAttemptSucceeded
    /\ tryIdx = 2

\* The request has an empty prompt, an empty history and no image.
EmptyRequest(r) ==
    /\ r.method = "POST"
    /\ r.form = "ok"
    /\ r.prompt = PromptEmpty
    /\ r.messages = <<>>
    /\ r.image = "none"

\* C5: for an empty prompt, an empty history and no image the result is an
\* error envelope with a non-empty error and an empty response, and nothing
\* is sent to either upstream service.
C5_EmptyRequestIsError ==
    (pc # "idle" /\ EmptyRequest(request)) =>
        /\ upstream = <<>>
        /\ pc = "done" =>
               /\ result.body.Error # ""
               /\ result.body.Response = ""
               /\ result.code # StatusOK

\* C5 witness: the empty history was well-formed JSON, so the request reached
\* handleTextChat.
C5_Witness ==
    /\ pc = "done"
    /\ EmptyRequest(request)
    /\ request.messagesField = "wellformed"
    /\ "handleTextChat" \in called

\* C6: no result carries both an error and a response; an error envelope has
\* an empty response and an empty imageBase64, a success envelope an empty
\* error.
C6_ErrorXorResponse ==
    /\ ~(result.body.Error # "" /\ result.body.Response # "")
    /\ result.body.Error # "" =>
           /\ result.body.Response = ""
           /\ result.body.ImageBase64 = NoImage
           /\ result.code # StatusOK
    /\ result.code = StatusOK => result.body.Error = ""

\* C6 witness: an error envelope written after generateImage ran out of
\* candidates.
C6_Witness ==
    /\ pc = "done"
    /\ "generateImage" \in called
    /\ result.body.Error # ""

\* generateImage has returned to handleChat, which has answered.
GenerationDone == pc = "done" /\ "generateImage" \in called

\* The generation requests sent to the j-th model of the try-order.
PostsTo(j) == { i \in EventsOf("post") : upstream[i].model = modelsToTry[j] }

Attempted(j) == PostsTo(j) # {}

SucceededAt(j) == \E i \in PostsTo(j) : upstream[i].image

\* The envelope of generateImage's all-models-failed error.
AllFailedEnvelope ==
    result.body.Error =
        "Failed to generate image: all image generation models failed, last error: "
            \o lastError

\* C7: generateImage returns the image of the first candidate of the
\* try-order whose attempt succeeded, every earlier one having failed; it
\* returns the all-models-failed error iff every candidate of the try-order
\* failed, and the error carried is then the one recorded for the last
\* candidate, never an absent one.
C7_FirstSuccessOrLastError ==
    GenerationDone =>
        /\ result.code = StatusOK <=> \E j \in 1..Len(modelsToTry) : SucceededAt(j)
        /\ result.code = StatusOK =>
               /\ SucceededAt(tryIdx)
               /\ \A k \in 1..(tryIdx - 1) : Attempted(k) /\ ~SucceededAt(k)
               /\ \A k \in (tryIdx + 1)..Len(modelsToTry) : ~Attempted(k)
               /\ result.body.ImageBase64 = EncodeToString(resp.body)
        /\ AllFailedEnvelope <=>
               \A j \in 1..Len(modelsToTry) : Attempted(j) /\ ~SucceededAt(j)
        /\ AllFailedEnvelope =>
               /\ lastError # NilError
               /\ Last(upstream).model = Last(modelsToTry)
               /\ lastError = IF Last(upstream).retry
                              THEN AfterRetry(Last(modelsToTry), resp).err
                              ELSE AfterFirst(Last(modelsToTry), resp).err

\* C7 witness: every candidate failed, the last one after its retry.
C7_Witness ==
    /\ GenerationDone
    /\ AllFailedEnvelope
    /\ Last(upstream).retry
    /\ Cardinality(EventsOf("post")) > Len(modelsToTry)

\* C8: once a generation attempt, first or retry, returns HTTP 200 with a
\* body of at least 100 bytes and no error field, generateImage returns that
\* body base64-encoded and issues no further probe, request or sleep.
C8_SuccessShortCircuits ==
    \A i \in EventsOf("post") :
        upstream[i].image =>
            /\ i = Len(upstream)
            /\ pc = "done"
            /\ IsImage(resp)
            /\ result.code = StatusOK
            /\ result.body.ImageBase64.of = resp.body
            /\ result.body.ImageBase64.len = 4 * ((resp.body.len + 2) \div 3)

\* C8 witness: the retry of the first candidate returned the image while
\* other candidates remained.
C8_Witness ==
    /\ pc = "done"
    /\ upstream # <<>>
    /\ Last(upstream).op = "post"
    /\ Last(upstream).retry
    /\ Last(upstream).image
    /\ tryIdx = 1

\* C9: a first response of 503 causes exactly one sleep followed by exactly
\* one retry to the same candidate; a failed retry, a second 503 included,
\* moves to the next candidate without further sleep or retry, so that no
\* candidate receives more than two generation requests.
C9_OneRetryPer503 ==
    /\ \A i \in EventsOf("sleep") :
           /\ i > 1
           /\ upstream[i - 1].op = "post"
           /\ ~upstream[i - 1].retry
           /\ upstream[i - 1].model = upstream[i].model
           /\ i < Len(upstream) =>
                  /\ upstream[i + 1].op = "post"
                  /\ upstream[i + 1].retry
                  /\ upstream[i + 1].model = upstream[i].model
    /\ \A i \in EventsOf("post") :
           /\ upstream[i].retry => upstream[i - 1].op = "sleep"
           /\ (upstream[i].retry /\ i < Len(upstream)) =>
                  /\ upstream[i + 1].op = "post"
                  /\ upstream[i + 1].model # upstream[i].model
    /\ \A m \in 1..Len(models) :
           /\ Cardinality({ i \in EventsOf("post") : upstream[i].model = models[m] }) <= 2
           /\ Cardinality({ i \in EventsOf("sleep") : upstream[i].model = models[m] }) <= 1
    /\ pc = "sleep" <=>
           /\ upstream # <<>>
           /\ Last(upstream).op = "post"
           /\ ~Last(upstream).retry
           /\ resp.kind = "http"
           /\ resp.status = 503
    /\ pc = "retry" <=> (upstream # <<>> /\ Last(upstream).op = "sleep")

\* C9 witness: the retry was answered 503 again and the loop stands at the
\* next candidate.
C9_Witness ==
    /\ pc = "post"
    /\ Last(upstream).op = "post"
    /\ Last(upstream).retry
    /\ resp.status = 503
    /\ tryIdx = 2

\* The probe phase of generateImage is over.
ProbePhaseOver == "generateImage" \in called /\ pc # "probe"

\* The candidates whose availability check was made and reported ready.
ReadyProbes == { i \in 1..Len(probed) : probed[i] }

\* C10: the preferred model is the first candidate, in list order, whose
\* availability check reports ready (HTTP 200); when none reports ready it
\* is the first entry of the list, and generation starts with it.
C10_PreferredModel ==
    /\ "generateImage" \in called =>
           /\ \A i \in 1..Len(probed) : upstream[i] = ProbeEvent(models[i])
           /\ (upstream # <<>> /\ Last(upstream).op = "probe") =>
                  (Last(probed) <=> (resp.kind = "http" /\ resp.status = 200))
    /\ ProbePhaseOver =>
           /\ workingModel =
                  IF ReadyProbes # {}
                  THEN models[CHOOSE i \in ReadyProbes : \A k \in ReadyProbes : i <= k]
                  ELSE models[1]
           /\ ReadyProbes = {} => Len(probed) = Len(models)
           /\ modelsToTry[1] = workingModel
           /\ Len(upstream) > Len(probed) =>
                  /\ upstream[Len(probed) + 1].op = "post"
                  /\ upstream[Len(probed) + 1].model = workingModel

\* C10 witness: no candidate reported ready and the first generation request
\* went to the first entry of the list.
C10_Witness ==
    /\ ProbePhaseOver
    /\ ReadyProbes = {}
    /\ Len(upstream) > Len(probed)
    /\ upstream[Len(probed) + 1].model = models[1]

\* The position of a model in the candidate list.
ListIndex(m) == CHOOSE i \in 1..Len(models) : models[i] = m

\* C11: whatever the probes answered, the try-order is the preferred model
\* followed by the other candidates in their original order, every candidate
\* exactly once; a candidate that probed not-ready is still attempted when
\* the candidates before it in the try-order have failed.
C11_TryOrderIsPermutation ==
    ProbePhaseOver =>
        /\ Len(modelsToTry) = Len(models)
        /\ modelsToTry[1] = workingModel
        /\ \A m \in 1..Len(models) :
               Cardinality({ j \in 1..Len(modelsToTry) : modelsToTry[j] = models[m] }) = 1
        /\ \A i, j \in 2..Len(modelsToTry) :
               i < j => ListIndex(modelsToTry[i]) < ListIndex(modelsToTry[j])
        /\ (pc = "post" /\ tryIdx <= Len(modelsToTry)) =>
               \A k \in 1..(tryIdx - 1) : Attempted(k) /\ ~SucceededAt(k)
        /\ (GenerationDone /\ result.code # StatusOK) =>
               \A j \in 1..Len(modelsToTry) : Attempted(j)

\* C11 witness: the second candidate was the one ready, and after it failed
\* the first candidate, probed not-ready, received a generation request.
C11_Witness ==
    /\ ProbePhaseOver
    /\ probed = <<FALSE, TRUE>>
    /\ modelsToTry[2] = models[1]
    /\ \E i \in EventsOf("post") : upstream[i].model = models[1]

\* The latest upstream event is the first generation request to a candidate.
FirstRequestAnswered ==
    /\ upstream # <<>>
    /\ Last(upstream).op = "post"
    /\ ~Last(upstream).retry

\* A first response that is neither a 503 nor an image: a transport failure,
\* 404, 401, 429, another non-200 status, a 200 with an error field or a 200
\* with a body under 100 bytes.
FailsWithoutRetry(r) ==
    \/ r.kind \in {"senderr", "readerr"}
    \/ /\ r.kind = "http"
       /\ r.status # 503
       /\ \/ r.status # 200
          \/ r.body.json = "error"
          \/ r.body.len < 100

\* The place in the try-order of the candidate of the latest event.
LatestCandidate == CHOOSE j \in 1..Len(modelsToTry) : modelsToTry[j] = Last(upstream).model

\* C12: a first response of 404, 401, 429, any other non-200 status, a 200
\* with an error field, a 200 with a body under 100 bytes, or a transport
\* failure records an error and moves to the next candidate without retrying
\* the current one; a 401 does not end the loop.
C12_FailureSkipsToNext ==
    (FirstRequestAnswered /\ FailsWithoutRetry(resp)) =>
        /\ pc \in {"post", "done"}
        /\ lastError # NilError
        /\ tryIdx = LatestCandidate + 1
        /\ pc = "done" <=> LatestCandidate = Len(modelsToTry)
        /\ pc = "done" => AllFailedEnvelope
        /\ Cardinality(PostsTo(LatestCandidate)) = 1
        /\ EventsOf("sleep") \cap { i \in 1..Len(upstream) :
                                      upstream[i].model = Last(upstream).model
                                      /\ upstream[i].op = "sleep" } = {}
        /\ (resp.kind = "http" /\ resp.status = 404) =>
               lastError = "model " \o Last(upstream).model \o " not found"
        /\ (resp.kind = "http" /\ resp.status = 401) =>
               lastError = "unauthorized - invalid API key"
        /\ (resp.kind = "http" /\ resp.status = 429) => lastError = "rate limit exceeded"
        /\ (resp.kind = "http" /\ resp.status = 200 /\ resp.body.json = "error") =>
               lastError = "model " \o Last(upstream).model \o " returned error: "
                               \o resp.body.text
        /\ (resp.kind = "http" /\ resp.status = 200 /\ resp.body.json # "error") =>
               lastError = "response too short for model " \o Last(upstream).model

\* C12 witness: the first candidate answered 401 and the loop stands at the
\* second one.
C12_Witness ==
    /\ FirstRequestAnswered
    /\ resp.kind = "http"
    /\ resp.status = 401
    /\ pc = "post"
    /\ tryIdx = 2

\* The parts of the last message that hold text.
LastTextParts(r) ==
    IF r.messages = <<>> THEN {}
    ELSE { p \in 1..Len(Last(r.messages).Parts) : Last(r.messages).Parts[p].Text # <<>> }

\* The prompt if there is one, else the first text of the last message, else
\* nothing.
EffectivePrompt(r) ==
    IF r.prompt # <<>> THEN r.prompt
    ELSE IF LastTextParts(r) = {} THEN <<>>
    ELSE Last(r.messages).Parts[CHOOSE p \in LastTextParts(r) :
                                    \A q \in LastTextParts(r) : p <= q].Text

ChatCallSucceeded == EventsOf("generateContent") # {} /\ chatResp.err = ""

\* The response holds a first candidate whose first part is text.
UsableCandidate(g) ==
    /\ g.Candidates # <<>>
    /\ g.Candidates[1].Parts # <<>>
    /\ g.Candidates[1].Parts[1].isText

\* The fixed fallback of the chat function that ran.
FallbackOf(fs) == IF "handleImageChat" \in fs THEN ImageFallback ELSE TextFallback

OnChatPath == pc = "done" /\ request # NoRequest /\ Parsed(request) /\ ~isImageGeneration

\* The prefix of the error of the chat function that ran.
ChatErrorPrefix(fs) ==
    IF "handleImageChat" \in fs THEN "failed to generate content with image: "
    ELSE "failed to generate content: "

\* C15 (as stated): on the chat path exactly one upstream generation call is
\* made per request.
C15_ExactlyOneCall ==
    OnChatPath => Cardinality(EventsOf("generateContent")) = 1

\* C15: on the chat path at most one upstream generation call is made per
\* request and nothing else is sent upstream; the call is made exactly when
\* the client was created and the chat function has something to send; if
\* the call errors, the result is the error envelope wrapping the provider's
\* message, after that single call.
C15_OneCallNoRetry ==
    OnChatPath =>
        /\ Cardinality(EventsOf("generateContent")) <= 1
        /\ Len(upstream) = Cardinality(EventsOf("generateContent"))
        /\ (upstream = <<>>) <=>
               \/ ClientFailed
               \/ ("handleTextChat" \in called /\ EffectivePrompt(request) = <<>>)
        /\ (upstream # <<>> /\ chatResp.err # "") =>
               /\ Len(upstream) = 1
               /\ result = sendErrorResponse(
                      "Failed to get response from Gemini: "
                          \o ChatErrorPrefix(called) \o chatResp.err,
                      StatusInternalServerError)

\* C15 witness: the single call of handleTextChat failed and its error was
\* surfaced.
C15_Witness ==
    /\ OnChatPath
    /\ "handleTextChat" \in called
    /\ Len(upstream) = 1
    /\ chatResp.err = "quota exceeded"
    /\ result.body.Error =
           "Failed to get response from Gemini: failed to generate content: quota exceeded"

\* C16: once the request is cancelled while image generation is running, no
\* further probe, generation request or sleep is started for it.
C16_CancelStopsGeneration ==
    [][(cancelled /\ "generateImage" \in called) => upstream' = upstream]_vars

\* A POST whose form parses but whose messages field is missing or is not
\* JSON.
HistoryUnusable(r) ==
    /\ r.method = "POST"
    /\ r.form = "ok"
    /\ r.messagesField \in {"absent", "malformed"}

\* C18: when the messages field is missing or cannot be parsed, handleChat
\* returns an error envelope, classifies nothing, makes no upstream call (no
\* probe, no generation request, no chat call), and takes no further step.
C18_BadHistoryStopsEarly ==
    HistoryUnusable(request) =>
        /\ pc = "done"
        /\ result.code = StatusBadRequest
        /\ result.body.Response = ""
        /\ result.body.ImageBase64 = NoImage
        /\ result.body.Error =
               IF request.messagesField = "absent" THEN "Messages field is required"
               ELSE "Failed to parse messages JSON: invalid character"
        /\ isImageGeneration = FALSE
        /\ called = {}
        /\ upstream = <<>>
        /\ chatResp = NoChatResponse
        /\ ~ENABLED Next

\* C18 witness: a request whose prompt holds a keyword and whose messages
\* field is not JSON was answered with the error envelope.
C18_Witness ==
    /\ pc = "done"
    /\ HistoryUnusable(request)
    /\ request.messagesField = "malformed"
    /\ KeywordIn(request.prompt)
    /\ result.body.Error # ""

\* The result is an error envelope: a failure status, a non-empty error, and
\* neither response nor image.
ErrorEnvelope ==
    /\ result # NoResult
    /\ result.code # StatusOK
    /\ result.body.Error # ""
    /\ result.body.Response = ""
    /\ result.body.ImageBase64 = NoImage

\* Some stage of the handling of the request failed: parsing, the creation
\* of the client on the chat route, the chat function, or generateImage.
SomeStageFailed ==
    \/ ~Parsed(request)
    \/ ClientFailed
    \/ (called \cap ChatFunctions # {} /\ (upstream = <<>> \/ chatResp.err # ""))
    \/ ("generateImage" \in called /\ ~SomeAttemptSucceeded)

\* The handling of a POST request has ended.
PostHandled == pc = "done" /\ request.method = "POST"

ImageReturned ==
    /\ result.code = StatusOK
    /\ result.body.Error = ""
    /\ result.body.ImageBase64 # NoImage

\* C20: generateImage, once called, returns; for the list of Len(models)
\* candidates it makes at most Len(models) availability probes, at most
\* 2 * Len(models) generation requests and at most Len(models) cooldown
\* sleeps, and it returns either an image or the all-models-failed error.
C20_GenerateImageTerminates ==
    /\ ("generateImage" \in called) ~> GenerationDone
    /\ [](/\ Cardinality(EventsOf("probe")) <= Len(models)
          /\ Cardinality(EventsOf("post")) <= 2 * Len(models)
          /\ Cardinality(EventsOf("sleep")) <= Len(models))
    /\ [](GenerationDone => (ImageReturned \/ (ErrorEnvelope /\ AllFailedEnvelope)))
    /\ []("generateImage" \notin called =>
              EventsOf("probe") \cup EventsOf("post") \cup EventsOf("sleep") = {})

\* C20 witness: the longest run: no model was ready, and every model
\* answered 503 and failed again after the sleep.
C20_Witness ==
    /\ GenerationDone
    /\ Cardinality(EventsOf("probe")) = Len(models)
    /\ Cardinality(EventsOf("post")) = 2 * Len(models)
    /\ Cardinality(EventsOf("sleep")) = Len(models)
    /\ AllFailedEnvelope

\* The longest the upstream calls and sleeps made so far can have taken, in
\* seconds: every probe and every generation request running into the
\* timeout of its client, every sleep lasting its full length.
WorstCaseLatency ==
    ProbeTimeout * Cardinality(EventsOf("probe"))
        + GenerateTimeout * Cardinality(EventsOf("post"))
        + CooldownSleep * Cardinality(EventsOf("sleep"))

\* C21 (as stated): one image-generation request over N candidates takes at
\* most probe-timeout + N * (60 s + 20 s), that is 10 + 80 * N seconds.
C21_LatencyAsStated ==
    "generateImage" \in called =>
        WorstCaseLatency <= ProbeTimeout + Len(models) * (GenerateTimeout + CooldownSleep)

\* C21: one image-generation request over N candidates takes at most
\* N * 10 s of probing plus N * (60 s + 20 s + 60 s) of generation, that is
\* 150 * N seconds: every candidate may be probed, and the retry after the
\* sleep is a second request with its own 60 s timeout.
C21_LatencyBound ==
    "generateImage" \in called =>
        WorstCaseLatency <=
            Len(models) * ProbeTimeout
                + Len(models) * (GenerateTimeout + CooldownSleep + GenerateTimeout)

\* C21 witness: the bound is met by the run in which no candidate is ready
\* and every candidate answers 503 and fails again after the sleep.
C21_Witness ==
    /\ GenerationDone
    /\ ~SomeAttemptSucceeded
    /\ WorstCaseLatency =
           Len(models) * ProbeTimeout
               + Len(models) * (GenerateTimeout + CooldownSleep + GenerateTimeout)

\* The result carries an image.
HasImageBase64 == result.body.ImageBase64.len > 0

\* The request went the chat way: the conversational client was asked for.
ChatPathTaken == "genai.NewClient" \in called \/ called \cap ChatFunctions # {}

\* C22: imageBase64 is non-empty only in results whose response is the
\* acknowledgement and whose error is empty; every result of the chat path
\* and every error envelope has an empty imageBase64, and every successful
\* generation result has a non-empty one, the encoding of the body received.
C22_ImageIsAdditive ==
    /\ HasImageBase64 =>
           /\ result.body.Response = AckText
           /\ result.body.Error = ""
           /\ result.code = StatusOK
    /\ ChatPathTaken => result.body.ImageBase64 = NoImage
    /\ result.body.Error # "" => result.body.ImageBase64 = NoImage
    /\ (GenerationDone /\ result.code = StatusOK) =>
           /\ HasImageBase64
           /\ result.body.ImageBase64 = EncodeToString(resp.body)
           /\ resp.body.len >= MinImageLen

\* C22 witness: a generation succeeded with the shortest body taken for an
\* image, and the result carries its encoding next to the acknowledgement.
C22_Witness ==
    /\ GenerationDone
    /\ result.code = StatusOK
    /\ resp.body.len = MinImageLen
    /\ HasImageBase64
    /\ result.body.Response = AckText

\* C23: every result envelope of a POST request has exactly one of response
\* and error non-empty; a success envelope carries a non-empty response
\* whatever text the conversational model returned.
C23_ExactlyOneOfResponseAndError ==
    PostHandled =>
        /\ (result.body.Response # "") # (result.body.Error # "")
        /\ result.code = StatusOK => result.body.Response # ""

\* The name of the candidate contains "stable-diffusion" or "sdxl".
NamedStableDiffusion(model) ==
    OccursIn(StableDiffusion, Runes(model)) \/ OccursIn(Sdxl, Runes(model))

\* C24: the payload of a generation request holds the inference-step and
\* guidance-scale parameters iff the candidate's name contains
\* "stable-diffusion" or "sdxl"; for every other candidate it holds only the
\* prompt as inputs.
C24_ParametersIffStableDiffusion ==
    \A i \in EventsOf("post") :
        LET payload == upstream[i].payload IN
        /\ payload.inputs = request.prompt
        /\ IF NamedStableDiffusion(upstream[i].model)
           THEN /\ DOMAIN payload = {"inputs", "parameters"}
                /\ DOMAIN payload.parameters = {"num_inference_steps", "guidance_scale"}
                /\ payload.parameters.num_inference_steps = NumInferenceSteps
                /\ payload.parameters.guidance_scale = GuidanceScale
           ELSE DOMAIN payload = {"inputs"}

\* C24 witness: a request to the candidate whose name holds "sdxl" and not
\* "stable-diffusion" went out with the parameters.
C24_Witness ==
    \E i \in EventsOf("post") :
        /\ upstream[i].model = "stabilityai/sdxl-turbo"
        /\ ~OccursIn(StableDiffusion, Runes(upstream[i].model))
        /\ "parameters" \in DOMAIN upstream[i].payload

\* C25: handleImageChat makes a single request whose parts are the prompt,
\* or the fixed default instruction when the prompt is empty, and the image
\* with its MIME type; whatever the history is, nothing of it is sent, and
\* the no-content error is never returned.
C25_ImageChatPrompt ==
    (pc = "done" /\ "handleImageChat" \in called) =>
        /\ Len(upstream) = 1
        /\ upstream[1].op = "generateContent"
        /\ Len(upstream[1].parts) = 2
        /\ upstream[1].parts[1] =
               IF request.prompt = PromptEmpty THEN DefaultImagePrompt ELSE request.prompt
        /\ upstream[1].parts[2] = [mimeType |-> "image/png", data |-> request.image]
        /\ result.body.Error #
               "Failed to get response from Gemini: no text content to send to Gemini"
        /\ result.body.Error # "" => chatResp.err # ""

\* C25 witness: with an empty prompt and an empty history the default
\* instruction was sent with the image.
C25_Witness ==
    /\ pc = "done"
    /\ "handleImageChat" \in called
    /\ request.prompt = PromptEmpty
    /\ request.messages = <<>>
    /\ upstream = <<ChatEvent(<<DefaultImagePrompt, ImageData(request)>>)>>

\* The place of a model in the try-order.
TryIndex(model) == CHOOSE j \in 1..Len(modelsToTry) : modelsToTry[j] = model

\* The events of the generation phase.
GenerationEvents == EventsOf("post") \cup EventsOf("sleep")

\* C26: within one generateImage call every availability probe precedes
\* every generation request; the candidates are probed in list order and
\* only the last probe made can have reported ready; the candidates are
\* attempted one after another in try-order, none skipped, and a candidate
\* is attempted only after every request to the ones before it has failed.
C26_ProbesThenOrderedAttempts ==
    /\ \A i \in EventsOf("probe") : \A j \in GenerationEvents : i < j
    /\ \A i \in EventsOf("probe") : upstream[i] = ProbeEvent(models[i])
    /\ Len(probed) = Cardinality(EventsOf("probe"))
    /\ \A i \in 1..Len(probed) : probed[i] => i = Len(probed)
    /\ (probed # <<>> /\ Last(probed)) => pc # "probe"
    /\ \A i, j \in GenerationEvents :
           i < j => /\ TryIndex(upstream[i].model) <= TryIndex(upstream[j].model)
                    /\ TryIndex(upstream[j].model) - TryIndex(upstream[i].model) <= j - i
    /\ \A i, j \in EventsOf("post") :
           (i < j /\ upstream[i].model # upstream[j].model) => ~upstream[i].image
    /\ \A i \in EventsOf("post") : upstream[i].image => i = Len(upstream)
    /\ \A j \in EventsOf("post") :
           \A k \in 1..(TryIndex(upstream[j].model) - 1) : Attempted(k) /\ ~SucceededAt(k)

\* C26 witness: the second candidate reported ready, the third was not
\* probed, and generation went from the second candidate on to the first.
C26_Witness ==
    /\ GenerationDone
    /\ probed = <<FALSE, TRUE>>
    /\ Cardinality(EventsOf("probe")) = 2
    /\ modelsToTry[1] = models[2]
    /\ Attempted(1)
    /\ Attempted(2)

\* Some keyword occurs in a text of the last message, which is a user's.
KeywordInLastUserMessage(r) ==
    /\ r.messages # <<>>
    /\ Last(r.messages).Role = "user"
    /\ \E p \in 1..Len(Last(r.messages).Parts) : KeywordIn(Last(r.messages).Parts[p].Text)

\* C27: a request is routed to image generation only on a keyword in its
\* prompt or in its last message when that message is a user's: neither a
\* keyword in an earlier message nor the text of a last message of role
\* model sends it there.
C27_OnlyLatestUserUtterance ==
    (pc # "idle" /\ Parsed(request)) =>
        ((isImageGeneration \/ "generateImage" \in called) =>
             (KeywordIn(request.prompt) \/ KeywordInLastUserMessage(request)))

\* The classifier said yes on the last message alone, the prompt being empty.
GenerationByHistoryOnly(r) ==
    /\ Parsed(r)
    /\ r.prompt = PromptEmpty
    /\ r.messages # <<>>
    /\ \E p \in 1..Len(Last(r.messages).Parts) : KeywordIn(Last(r.messages).Parts[p].Text)

\* C28: the inputs of every generation request is the prompt field of the
\* request, unchanged; a request with an empty prompt that is classified
\* true on its last message still goes to generateImage, every request of
\* which carries the empty string as inputs, and it ends with an image or
\* the all-models-failed error, never the no-content error.
C28_InputsIsPromptField ==
    /\ \A i \in EventsOf("post") : upstream[i].payload.inputs = request.prompt
    /\ (pc # "idle" /\ GenerationByHistoryOnly(request)) =>
           /\ isImageGeneration
           /\ "generateImage" \in called
           /\ called \cap ChatFunctions = {}
           /\ \A i \in EventsOf("post") : upstream[i].payload.inputs = <<>>
           /\ pc = "done" =>
                  /\ EventsOf("post") # {}
                  /\ ImageReturned \/ AllFailedEnvelope

\* C28 witness: a request with an empty prompt whose last message holds a
\* keyword got its image from a generation request with empty inputs.
C28_Witness ==
    /\ GenerationDone
    /\ GenerationByHistoryOnly(request)
    /\ ImageReturned
    /\ \E i \in EventsOf("post") : upstream[i].payload.inputs = <<>> /\ upstream[i].image

\* Two requests with the same prompt, or with empty prompts and the same
\* last message; their earlier turns may differ.
SamePromptOrLastMessage(r1, r2) ==
    /\ r1.prompt = r2.prompt
    /\ r1.prompt = PromptEmpty =>
           /\ (r1.messages = <<>>) <=> (r2.messages = <<>>)
           /\ r1.messages # <<>> => Last(r1.messages) = Last(r2.messages)

\* The texts of the parts of a message.
TextsOf(message) == { message.Parts[p].Text : p \in 1..Len(message.Parts) }

\* C29: what handleTextChat sends depends only on the prompt and, when the
\* prompt is empty, on the last message: every request with the same prompt,
\* or with an empty prompt and the same last message, makes the same upstream
\* request whatever its earlier turns are; the one text sent is the prompt or
\* a text of the last message, never a turn before it.
C29_EarlierTurnsNotSent ==
    (pc = "done" /\ "handleTextChat" \in called) =>
        /\ \A r \in ChatRequests :
               SamePromptOrLastMessage(request, r) =>
                   handleTextChat(r.messages, r.prompt, chatResp).calls = upstream
        /\ \A i \in 1..Len(upstream) :
               /\ Len(upstream[i].parts) = 1
               /\ \/ upstream[i].parts[1] = request.prompt
                  \/ /\ request.messages # <<>>
                     /\ upstream[i].parts[1] \in TextsOf(Last(request.messages))

\* C29 witness: a history of two turns with different texts and an empty
\* prompt, of which the text of the last turn alone was sent.
C29_Witness ==
    /\ pc = "done"
    /\ "handleTextChat" \in called
    /\ request.prompt = PromptEmpty
    /\ Len(request.messages) = 2
    /\ TextLukis \in TextsOf(request.messages[1])
    /\ TextLukis \notin TextsOf(request.messages[2])
    /\ upstream = <<ChatEvent(<<TextHalo>>)>>

\* The image-generation endpoint was probed or called, or a cooldown begun.
ImageEndpointContacted ==
    EventsOf("probe") \cup EventsOf("post") \cup EventsOf("sleep") # {}

\* The conversational client was asked for, created or called.
ConversationalServiceContacted ==
    \/ "genai.NewClient" \in called
    \/ client # "nil"
    \/ called \cap ChatFunctions # {}
    \/ EventsOf("generateContent") # {}
    \/ chatResp # NoChatResponse

\* C30: a request contacts at most one upstream service.  On the generation
\* path the conversational client is never created or called; on the chat
\* path the image-generation endpoint is never probed or called; both also
\* when the path taken has failed.
C30_OneUpstreamService ==
    /\ ~(ImageEndpointContacted /\ ConversationalServiceContacted)
    /\ (isImageGeneration \/ "generateImage" \in called) =>
           ~ConversationalServiceContacted
    /\ (pc # "idle" /\ Parsed(request) /\ ~isImageGeneration) =>
           /\ "generateImage" \notin called
           /\ ~ImageEndpointContacted
           /\ probed = <<>>
           /\ modelsToTry = <<>>
    /\ ImageEndpointContacted => "generateImage" \in called

\* C30 witness: a request with an uploaded image went to generation, every
\* model failed, and the conversational client was never asked for.
C30_Witness ==
    /\ GenerationDone
    /\ HasImage(request)
    /\ ~SomeAttemptSucceeded
    /\ AllFailedEnvelope
    /\ ~ConversationalServiceContacted
====
